---- MODULE Spec2Model ----
(***************************************************************************)
(* Rewriting forward proxy (KLgameproject/server).                         *)
(*                                                                         *)
(* Two server variants are modelled:                                       *)
(*   "v3"  src/server.js           (version 3.0.0: cookie jar with sweep)  *)
(*   "v4"  src/unnamed/part_000    (version 4.0.0: content cache)          *)
(*                                                                         *)
(* JavaScript strings are sequences of one-character strings, so that      *)
(* startsWith / includes / split / join are computed as the code computes  *)
(* them.  Date.now() is the variable now, in milliseconds.  An async       *)
(* handler is one action per run-to-completion segment between awaits.     *)
(***************************************************************************)
EXTENDS Integers, Sequences, FiniteSets, TLC

VARIABLES
    variant,      \* which server file is running: "v3" or "v4"
    now,          \* Date.now()
    cache,        \* v4: Map key -> {data, contentType, timestamp}, in Map (insertion) order
    cacheSize,    \* v4: let cacheSize
    cookieStore,  \* Map sessionId -> {cookies, timestamp}
    reqs,         \* the /browse invocations suspended at an await, per slot
    lastResp,     \* the response the step just taken emitted, if it emitted one
    lastLookup,   \* history: what getFromCache reported in the step just taken
    nextSweep,    \* earliest time the setInterval callback fires next
    evicted,      \* history: what addToCache evicted in the step just taken
    writer,       \* history: method of the request that last stored each key
    expect,       \* history: payload the last completed image GET of each key relayed
    recorded,     \* history: name=value pairs of emitted responses, per session
    starts,       \* number of /browse requests started (bounded)
    ticks         \* number of clock advances (bounded)

vars == <<variant, now, cache, cacheSize, cookieStore, reqs, lastResp, lastLookup,
          nextSweep, evicted, writer, expect, recorded, starts, ticks>>

-----------------------------------------------------------------------------
(* Bounds of the model *)

MaxReq == 2
MaxStarts == 2
MaxTicks == 1

-----------------------------------------------------------------------------
(* JavaScript string operations on sequences of characters *)

Min(a, b) == IF a < b THEN a ELSE b

Max(a, b) == IF a > b THEN a ELSE b

StartsWith(s, p) ==
    /\ Len(p) <= Len(s)
    /\ SubSeq(s, 1, Len(p)) = p

Includes(s, p) ==
    \E i \in 0..(Len(s) - Len(p)) : SubSeq(s, i + 1, i + Len(p)) = p

IndexOf(s, ch) ==
    IF \E i \in 1..Len(s) : s[i] = ch
    THEN CHOOSE i \in 1..Len(s) : s[i] = ch /\ \A j \in 1..(i - 1) : s[j] # ch
    ELSE 0

\* c.split(';')[0]
SplitFirst(s, ch) ==
    IF IndexOf(s, ch) = 0 THEN s ELSE SubSeq(s, 1, IndexOf(s, ch) - 1)

RECURSIVE Join(_, _)
Join(parts, sep) ==
    IF Len(parts) = 0 THEN <<>>
    ELSE IF Len(parts) = 1 THEN parts[1]
    ELSE parts[1] \o sep \o Join(Tail(parts), sep)

-----------------------------------------------------------------------------
(* Program constants *)

REQUEST_TIMEOUT == 30000
CACHE_MAX_SIZE == 100 * 1024 * 1024
CACHE_MAX_AGE == 10 * 60 * 1000
CACHE_SWEEP_INTERVAL == 60 * 1000
STATIC_ITEM_MAX == 5 * 1024 * 1024
CSS_ITEM_MAX == 1024 * 1024
JS_ITEM_MAX == 2 * 1024 * 1024
COOKIE_MAX_AGE == 30 * 60 * 1000
COOKIE_SWEEP_INTERVAL == 5 * 60 * 1000

S_http == <<"h", "t", "t", "p", ":", "/", "/">>
S_https == <<"h", "t", "t", "p", "s", ":", "/", "/">>
S_image == <<"i", "m", "a", "g", "e", "/">>
S_font == <<"f", "o", "n", "t">>
S_audio == <<"a", "u", "d", "i", "o", "/">>
S_video == <<"v", "i", "d", "e", "o", "/">>
S_fontSlash == <<"f", "o", "n", "t", "/">>
S_appFont == <<"a", "p", "p", "l", "i", "c", "a", "t", "i", "o", "n", "/", "f", "o", "n", "t">>
S_textCss == <<"t", "e", "x", "t", "/", "c", "s", "s">>
S_appJs == <<"a", "p", "p", "l", "i", "c", "a", "t", "i", "o", "n", "/", "j", "a", "v", "a", "s", "c", "r", "i", "p", "t">>
S_textJs == <<"t", "e", "x", "t", "/", "j", "a", "v", "a", "s", "c", "r", "i", "p", "t">>
S_javascript == <<"j", "a", "v", "a", "s", "c", "r", "i", "p", "t">>
S_textHtml == <<"t", "e", "x", "t", "/", "h", "t", "m", "l">>
S_htmlUtf8 == <<"t", "e", "x", "t", "/", "h", "t", "m", "l", ";", " ", "c", "h", "a", "r", "s", "e", "t", "=", "u", "t", "f", "-", "8">>
S_octet == <<"a", "p", "p", "l", "i", "c", "a", "t", "i", "o", "n", "/", "o", "c", "t", "e", "t", "-", "s", "t", "r", "e", "a", "m">>
S_textPlain == <<"t", "e", "x", "t", "/", "p", "l", "a", "i", "n">>
S_appJson == <<"a", "p", "p", "l", "i", "c", "a", "t", "i", "o", "n", "/", "j", "s", "o", "n">>
S_manifest == <<"m", "a", "n", "i", "f", "e", "s", "t", "+", "j", "s", "o", "n">>
S_svg == <<"i", "m", "a", "g", "e", "/", "s", "v", "g", "+", "x", "m", "l">>
S_cookieSep == <<";", " ">>

\* new URL(finalUrl).origin: the protocol and the host
Origin(url) ==
    LET proto == IF StartsWith(url, S_https) THEN S_https ELSE S_http
        rest == SubSeq(url, Len(proto) + 1, Len(url))
    IN  proto \o SplitFirst(rest, "/")

CACHEABLE_TYPES == <<S_image, S_fontSlash, S_appFont, S_textCss, S_appJs, S_textJs>>

shouldCache(contentType) ==
    \E i \in 1..Len(CACHEABLE_TYPES) : Includes(contentType, CACHEABLE_TYPES[i])

getCacheKey(url) == url

-----------------------------------------------------------------------------
(* The inputs the environment supplies *)

\* upstream content types
CT_png == <<"i", "m", "a", "g", "e", "/", "p", "n", "g">>
CT_mpeg == <<"a", "u", "d", "i", "o", "/", "m", "p", "e", "g">>
CT_json == <<"a", "p", "p", "l", "i", "c", "a", "t", "i", "o", "n", "/", "j", "s", "o", "n">>
CT_none == <<>>

\* req.query.url values: absent, scheme-less, with scheme, unparsable
T_missing == <<>>
T_a == <<"a", ".", "i", "o">>
T_httpsA == <<"h", "t", "t", "p", "s", ":", "/", "/", "a", ".", "i", "o">>
T_httpB == <<"h", "t", "t", "p", ":", "/", "/", "b", ".", "i", "o">>
T_bad == <<"h", "t", "t", "p", ":", "/", "/">>

KeyA == T_httpsA
KeyB == T_httpB
Keys == {KeyA, KeyB}

\* req.query.session values; the empty string stands for an absent parameter
SID_default == <<"d", "e", "f", "a", "u", "l", "t">>
SID_s1 == <<"s", "1">>
SessionParams == {<<>>, SID_s1}
SessionIds == {SID_default, SID_s1}

\* upstream bodies: an identity, the byte length, the number of url(http://b.io)
\* references a stylesheet body holds, and the URL-carrying attributes of an HTML
\* body, each with its element and attribute name, and which of the strings </head>
\* and <body an HTML body includes
BodyA == [id |-> "A", len |-> 25, refs |-> 1, doc |-> <<>>,
          marks |-> {}]
BodyB == [id |-> "B", len |-> STATIC_ITEM_MAX - 1, refs |-> 0, doc |-> <<>>,
          marks |-> {}]
BodyM == [id |-> "M", len |-> JS_ITEM_MAX - 1, refs |-> 0, doc |-> <<>>,
          marks |-> {}]
BodyC == [id |-> "C", len |-> STATIC_ITEM_MAX + 1, refs |-> 0, doc |-> <<>>,
          marks |-> {}]

\* Set-Cookie header values
SC_a == <<"a", "=", "1">>
SC_b == <<"b", "=", "2", ";", " ", "P", "a", "t", "h", "=", "/">>
SC_c == <<"c", "=", "3", ";">>

NoData == [body |-> "-", len |-> 0, form |-> "-", base |-> <<>>, doc |-> <<>>,
           inject |-> "-"]
NoExpect == [set |-> FALSE, data |-> NoData, ctype |-> <<>>, at |-> 0]
NoWant == [set |-> FALSE, data |-> NoData, ctype |-> <<>>]

Slots == 1..MaxReq

\* owed is history: the pairs whose responses were emitted before the request started
IdleReq == [pc |-> "idle", method |-> "-", key |-> <<>>, session |-> <<>>,
            hasCookie |-> FALSE, cookie |-> <<>>, deadline |-> 0, ctype |-> <<>>,
            setCookies |-> <<>>, owed |-> {}]

NoLookup == [kind |-> "-", method |-> "-", wanted |-> FALSE, age |-> 0]

NoResp == [status |-> 0, ctype |-> <<>>, xcache |-> "-", data |-> NoData,
           method |-> "-", key |-> <<>>, session |-> <<>>, fetched |-> FALSE,
           path |-> "-", age |-> 0, exp |-> NoWant, stored |-> FALSE,
           cause |-> "-", declared |-> <<>>, upstream |-> <<>>, marks |-> {}]

-----------------------------------------------------------------------------
(* v4: the content cache (src/unnamed/part_000) *)

CacheIndex(c, key) ==
    IF \E i \in 1..Len(c) : c[i].key = key
    THEN CHOOSE i \in 1..Len(c) : c[i].key = key
    ELSE 0

CacheHas(c, key) == CacheIndex(c, key) # 0

\* Map.prototype.delete
CacheDelete(c, key) == SelectSeq(c, LAMBDA e : e.key # key)

\* Map.prototype.set: an existing key keeps its place in the iteration order
CacheSet(c, key, entry) ==
    IF CacheHas(c, key)
    THEN [c EXCEPT ![CacheIndex(c, key)] = entry]
    ELSE Append(c, entry)

RECURSIVE SumLen(_)
SumLen(c) == IF Len(c) = 0 THEN 0 ELSE Head(c).data.len + SumLen(Tail(c))

NoEntry == [key |-> <<>>, data |-> NoData, contentType |-> <<>>, timestamp |-> 0]

\* mutant: the age of the item is not looked at
getFromCacheNoTtl(c, size, key, t) ==
    LET i == CacheIndex(c, key)
    IN  IF i # 0
        THEN [found |-> TRUE, item |-> c[i], cache |-> c, cacheSize |-> size]
        ELSE [found |-> FALSE, item |-> NoEntry, cache |-> c, cacheSize |-> size]

\* function getFromCache(key): the item or null, and the cache after the lazy purge
getFromCache(c, size, key, t) ==
    LET i == CacheIndex(c, key)
    IN  IF i # 0 /\ t - c[i].timestamp < CACHE_MAX_AGE
        THEN [found |-> TRUE, item |-> c[i], cache |-> c, cacheSize |-> size]
        ELSE IF i # 0
        THEN [found |-> FALSE, item |-> NoEntry, cache |-> CacheDelete(c, key),
              cacheSize |-> size - c[i].data.len]
        ELSE [found |-> FALSE, item |-> NoEntry, cache |-> c, cacheSize |-> size]

OldestTimestamp(c) ==
    CHOOSE t \in {c[i].timestamp : i \in 1..Len(c)} :
        \A i \in 1..Len(c) : t <= c[i].timestamp

\* the while loop of addToCache; ev collects, per eviction, the victim and the
\* smallest timestamp resident at that moment
RECURSIVE EvictLoop(_, _, _, _)
EvictLoop(c, size, len, ev) ==
    IF size + len > CACHE_MAX_SIZE /\ Len(c) > 0
    THEN EvictLoop(Tail(c), size - Head(c).data.len, len,
                   Append(ev, [key |-> Head(c).key, timestamp |-> Head(c).timestamp,
                               oldest |-> OldestTimestamp(c)]))
    ELSE [cache |-> c, cacheSize |-> size, evicted |-> ev]

\* function addToCache(key, data, contentType)
addToCache(c, size, key, data, contentType, t) ==
    LET e == EvictLoop(c, size, data.len, <<>>)
    IN  [cache |-> CacheSet(e.cache, key,
                            [key |-> key, data |-> data, contentType |-> contentType,
                             timestamp |-> t]),
         cacheSize |-> e.cacheSize + data.len,
         evicted |-> e.evicted]

\* the setInterval callback that cleans the cache
sweepCache(c, size, t) ==
    LET stale(e) == t - e.timestamp > CACHE_MAX_AGE
        keep(e) == ~stale(e)
    IN  [cache |-> SelectSeq(c, keep),
         cacheSize |-> size - SumLen(SelectSeq(c, stale))]

-----------------------------------------------------------------------------
(* URL rewriting: shouldProxy / proxyUrl of src/server.js, shouldRewrite /         *)
(* makeProxyUrl of src/unnamed/part_000 (the same code under two names)            *)

S_data == <<"d", "a", "t", "a", ":">>
S_blob == <<"b", "l", "o", "b", ":">>
S_jsScheme == <<"j", "a", "v", "a", "s", "c", "r", "i", "p", "t", ":">>
S_about == <<"a", "b", "o", "u", "t", ":">>
S_hash == <<"#">>
S_slash == <<"/">>
S_slashSlash == <<"/", "/">>
S_httpsColon == <<"h", "t", "t", "p", "s", ":">>

\* encodeURIComponent, character by character: letters, digits and - _ . ! ~ * ' ( )
\* stay, the other characters of the inputs become their %XX escape
EncodeChar(c) ==
    CASE c = ":" -> <<"%", "3", "A">>
      [] c = "/" -> <<"%", "2", "F">>
      [] c = "?" -> <<"%", "3", "F">>
      [] c = "=" -> <<"%", "3", "D">>
      [] c = "&" -> <<"%", "2", "6">>
      [] c = "#" -> <<"%", "2", "3">>
      [] c = "%" -> <<"%", "2", "5">>
      [] c = "@" -> <<"%", "4", "0">>
      [] OTHER -> <<c>>

RECURSIVE encodeURIComponent(_)
encodeURIComponent(str) ==
    IF Len(str) = 0 THEN <<>>
    ELSE IF Len(str) = 1 THEN EncodeChar(str[1])
    ELSE LET half == Len(str) \div 2
         IN  encodeURIComponent(SubSeq(str, 1, half))
                 \o encodeURIComponent(SubSeq(str, half + 1, Len(str)))

\* function shouldProxy(url) / shouldRewrite(url)
shouldProxy(url) ==
    /\ url # <<>>
    /\ ~StartsWith(url, S_data)
    /\ ~StartsWith(url, S_blob)
    /\ ~StartsWith(url, S_jsScheme)
    /\ ~StartsWith(url, S_hash)
    /\ ~StartsWith(url, S_about)

\* whether the string starts with a scheme (letters and a colon)
HasScheme(url) ==
    /\ IndexOf(url, ":") > 1
    /\ \A j \in 1..(IndexOf(url, ":") - 1) : url[j] \notin {"/", "?", "#", ".", "@"}

\* new URL(url, currentUrl).href, for a currentUrl without a path: a string with a
\* scheme of its own is kept, a relative path is put under the origin
ResolveHref(url, currentUrl) ==
    IF HasScheme(url) THEN url ELSE Origin(currentUrl) \o S_slash \o url

\* function proxyUrl(url, baseUrl, proxyBase, currentUrl) / makeProxyUrl
proxyUrl(url, baseUrl, proxyBase, currentUrl) ==
    LET absoluteUrl ==
            IF StartsWith(url, S_http) \/ StartsWith(url, S_https) THEN url
            ELSE IF StartsWith(url, S_slashSlash) THEN S_httpsColon \o url
            ELSE IF StartsWith(url, S_slash) THEN baseUrl \o url
            ELSE ResolveHref(url, currentUrl)
    IN  proxyBase \o encodeURIComponent(absoluteUrl)

\* the replacer every attribute pass shares: rewrite the value when it is proxiable
Replacer(url, baseUrl, proxyBase, currentUrl) ==
    IF shouldProxy(url) THEN proxyUrl(url, baseUrl, proxyBase, currentUrl) ELSE url

\* rewriteSrcset for a srcset of one candidate without descriptor
rewriteSrcset(srcset, baseUrl, proxyBase, currentUrl) ==
    Replacer(srcset, baseUrl, proxyBase, currentUrl)

\* one attribute pass of rewriteHtml: the elements it matches (all when any), the
\* attribute it matches, and the value it leaves
AttrPass(o, any, tags, attr, v, baseUrl, proxyBase, currentUrl) ==
    IF (any \/ o.tag \in tags) /\ o.attr = attr
    THEN Replacer(v, baseUrl, proxyBase, currentUrl)
    ELSE v

\* a pass whose prefix is (<tag[^>]+\s): one character at least stands between the tag
\* name and the white space before the attribute, so the pass skips an attribute that
\* follows the tag name directly
AttrPassAfter(o, tags, attr, v, baseUrl, proxyBase, currentUrl) ==
    IF ~o.first /\ o.tag \in tags /\ o.attr = attr
    THEN Replacer(v, baseUrl, proxyBase, currentUrl)
    ELSE v

\* v3 rewriteHtml on one attribute: the passes in the order of the source, each on
\* the value the pass before it left
rewriteAttrV3(o, baseUrl, proxyBase, currentUrl) ==
    LET P(any, tags, attr, v) ==
            AttrPass(o, any, tags, attr, v, baseUrl, proxyBase, currentUrl)
        Q(tags, attr, v) ==
            AttrPassAfter(o, tags, attr, v, baseUrl, proxyBase, currentUrl)
        v1 == P(FALSE, {"use", "image", "a"}, "href", o.value)
        v2 == P(TRUE, {}, "href", v1)
        v3 == P(TRUE, {}, "src", v2)
        v4 == IF o.tag = "img" /\ o.attr = "srcset" /\ ~o.first
              THEN rewriteSrcset(v3, baseUrl, proxyBase, currentUrl) ELSE v3
        v5 == Q({"form"}, "action", v4)
        v6 == P(TRUE, {}, "poster", v5)
        v7 == P(TRUE, {}, "data-src", v6)
        v8 == Q({"object"}, "data", v7)
        v9 == Q({"embed"}, "src", v8)
        v10 == Q({"source"}, "src", v9)
        v11 == IF o.tag = "source" /\ o.attr = "srcset" /\ ~o.first
               THEN rewriteSrcset(v10, baseUrl, proxyBase, currentUrl) ELSE v10
        v12 == Q({"track"}, "src", v11)
        v13 == Q({"link"}, "href", v12)
        v14 == P(TRUE, {}, "style", v13)
    IN  v14

\* function rewriteHtml of src/server.js, on the URL-carrying attributes
rewriteHtmlV3(doc, baseUrl, proxyBase, currentUrl) ==
    [i \in 1..Len(doc) |->
        [doc[i] EXCEPT !.value = rewriteAttrV3(doc[i], baseUrl, proxyBase, currentUrl)]]

\* v4 rewriteHtml on one attribute: one pass over href|src|action|poster|data-src of
\* any element, one over srcset, one over the url() of a style attribute
rewriteAttrV4(o, baseUrl, proxyBase, currentUrl) ==
    LET v1 == IF o.attr \in {"href", "src", "action", "poster", "data-src"}
              THEN Replacer(o.value, baseUrl, proxyBase, currentUrl) ELSE o.value
        v2 == IF o.attr = "srcset"
              THEN rewriteSrcset(v1, baseUrl, proxyBase, currentUrl) ELSE v1
        v3 == IF o.attr = "style"
              THEN Replacer(v2, baseUrl, proxyBase, currentUrl) ELSE v2
    IN  v3

\* function rewriteHtml of src/unnamed/part_000, on the URL-carrying attributes
rewriteHtmlV4(doc, baseUrl, proxyBase, currentUrl) ==
    [i \in 1..Len(doc) |->
        [doc[i] EXCEPT !.value = rewriteAttrV4(doc[i], baseUrl, proxyBase, currentUrl)]]

\* rewriteCss on one token of a stylesheet: rewriteCssUrls on every url(...), the one
\* of an @import url(...) included, then the pass over @import "...", then the pass
\* over @import url(...), each on the value the pass before it left
rewriteCssToken(o, baseUrl, proxyBase, currentUrl) ==
    LET v1 == IF o.attr \in {"url()", "@import url()"}
              THEN Replacer(o.value, baseUrl, proxyBase, currentUrl) ELSE o.value
        v2 == IF o.attr = "@import"
              THEN Replacer(v1, baseUrl, proxyBase, currentUrl) ELSE v1
        v3 == IF o.attr = "@import url()"
              THEN Replacer(v2, baseUrl, proxyBase, currentUrl) ELSE v2
    IN  v3

\* function rewriteCss(css, baseUrl, proxyBase, currentUrl), on the tokens that carry
\* a URL
rewriteCss(doc, baseUrl, proxyBase, currentUrl) ==
    [i \in 1..Len(doc) |->
        [doc[i] EXCEPT !.value = rewriteCssToken(doc[i], baseUrl, proxyBase, currentUrl)]]

\* by how many characters the attribute values grew
RECURSIVE DocGrowth(_, _)
DocGrowth(doc, out) ==
    IF Len(doc) = 0 THEN 0
    ELSE Len(Head(out).value) - Len(Head(doc).value) + DocGrowth(Tail(doc), Tail(out))

\* where the /browse handler of src/server.js puts the injected script: before the
\* first </head>, else after the opening <body...> tag, else at the start
InjectV3(marks) ==
    IF "</head>" \in marks THEN "before </head>"
    ELSE IF "<body" \in marks THEN "after <body>"
    ELSE "start"

\* where the /browse handler of src/unnamed/part_000 puts the script: before the first
\* </head>, else at the start
InjectV4(marks) ==
    IF "</head>" \in marks THEN "before </head>" ELSE "start"

-----------------------------------------------------------------------------
(* v4: what each content-type branch of /browse relays and stores *)

\* `${req.protocol}://${req.get('host')}/browse?session=${sessionId}&url=`, host "p"
ProxyBase(sessionId) ==
    <<"h", "t", "t", "p", ":", "/", "/", "p", "/", "b", "r", "o", "w", "s", "e", "?",
      "s", "e", "s", "s", "i", "o", "n", "=">> \o sessionId \o <<"&", "u", "r", "l", "=">>

\* url(http://b.io) becomes url("<proxyBase>http%3A%2F%2Fb.io"): two quotes, the
\* proxy base, and two more characters for each of the three encoded characters
rewriteCssLen(body, proxyBase) == body.len + body.refs * (Len(proxyBase) + 2 + 6)

SCRIPT_TEMPLATE_LEN == 1381

\* length of createScript(proxyBase, baseUrl, currentUrl)
createScriptLen(proxyBase, baseUrl, currentUrl) ==
    SCRIPT_TEMPLATE_LEN + Len(proxyBase) + Len(baseUrl) + Len(currentUrl)

PathV4(contentType) ==
    IF \/ StartsWith(contentType, S_image)
       \/ Includes(contentType, S_font)
       \/ Includes(contentType, S_audio)
       \/ Includes(contentType, S_video)
    THEN "static"
    ELSE IF Includes(contentType, S_textCss) THEN "css"
    ELSE IF Includes(contentType, S_javascript) THEN "js"
    ELSE IF Includes(contentType, S_textHtml) THEN "html"
    ELSE "other"

RawData(body) ==
    [body |-> body.id, len |-> body.len, form |-> "raw", base |-> <<>>, doc |-> body.doc,
     inject |-> "-"]

\* mutant: the static branch stores without the length test
StaticPathNoLimit(body, contentType, proxyBase, finalUrl) ==
    [store |-> shouldCache(contentType),
     data |-> RawData(body), storeType |-> contentType, respType |-> contentType]

StaticPathV4(body, contentType, proxyBase, finalUrl) ==
    [store |-> shouldCache(contentType) /\ body.len < STATIC_ITEM_MAX,
     data |-> RawData(body), storeType |-> contentType, respType |-> contentType]

CssPathV4(body, contentType, proxyBase, finalUrl) ==
    LET out == rewriteCss(body.doc, Origin(finalUrl), proxyBase, finalUrl)
        css == [body |-> body.id,
                len |-> rewriteCssLen(body, proxyBase) + DocGrowth(body.doc, out),
                form |-> "css", base |-> proxyBase, doc |-> out,
                inject |-> "-"]
    IN  [store |-> css.len < CSS_ITEM_MAX,
         data |-> css, storeType |-> S_textCss, respType |-> S_textCss]

JsPathV4(body, contentType, proxyBase, finalUrl) ==
    [store |-> body.len < JS_ITEM_MAX,
     data |-> RawData(body), storeType |-> contentType, respType |-> contentType]

\* mutant: the HTML branch stores what it relays
HtmlPathStores(body, contentType, proxyBase, finalUrl) ==
    [store |-> TRUE,
     data |-> [body |-> body.id,
               len |-> rewriteCssLen(body, proxyBase)
                       + DocGrowth(body.doc, rewriteHtmlV4(body.doc, Origin(finalUrl),
                                                           proxyBase, finalUrl))
                       + createScriptLen(proxyBase, Origin(finalUrl), finalUrl),
               form |-> "html", base |-> proxyBase,
               doc |-> rewriteHtmlV4(body.doc, Origin(finalUrl), proxyBase, finalUrl),
               inject |-> InjectV4(body.marks)],
     storeType |-> S_htmlUtf8, respType |-> S_htmlUtf8]

HtmlPathV4(body, contentType, proxyBase, finalUrl) ==
    [store |-> FALSE,
     data |-> [body |-> body.id,
               len |-> rewriteCssLen(body, proxyBase)
                       + DocGrowth(body.doc, rewriteHtmlV4(body.doc, Origin(finalUrl),
                                                           proxyBase, finalUrl))
                       + createScriptLen(proxyBase, Origin(finalUrl), finalUrl),
               form |-> "html", base |-> proxyBase,
               doc |-> rewriteHtmlV4(body.doc, Origin(finalUrl), proxyBase, finalUrl),
               inject |-> InjectV4(body.marks)],
     storeType |-> <<>>, respType |-> S_htmlUtf8]

OtherPathV4(body, contentType, proxyBase, finalUrl) ==
    [store |-> FALSE, data |-> RawData(body), storeType |-> <<>>,
     respType |-> IF contentType = <<>> THEN S_octet ELSE contentType]

RelayV4(body, contentType, proxyBase, finalUrl) ==
    LET path == PathV4(contentType)
    IN  CASE path = "static" -> StaticPathV4(body, contentType, proxyBase, finalUrl)
          [] path = "css" -> CssPathV4(body, contentType, proxyBase, finalUrl)
          [] path = "js" -> JsPathV4(body, contentType, proxyBase, finalUrl)
          [] path = "html" -> HtmlPathV4(body, contentType, proxyBase, finalUrl)
          [] OTHER -> OtherPathV4(body, contentType, proxyBase, finalUrl)

-----------------------------------------------------------------------------
(* The cookie jar step both variants run after the fetch resolved *)

NameValue(c) == SplitFirst(c, ";")

\* setCookies.map(c => c.split(';')[0]).join('; ')
newCookiesOf(setCookies) ==
    Join([i \in 1..Len(setCookies) |-> NameValue(setCookies[i])], S_cookieSep)

JarPut(store, sessionId, entry) ==
    [s \in DOMAIN store \cup {sessionId} |-> IF s = sessionId THEN entry ELSE store[s]]

\* mutant: no Cookie header is attached
CookieHeaderOff(store, sessionId) == [has |-> FALSE, value |-> <<>>]

\* the Cookie header of the outbound request: set only when the session has an entry
\* whose cookies string is not empty
CookieHeader(store, sessionId) ==
    IF sessionId \in DOMAIN store /\ store[sessionId].cookies # <<>>
    THEN [has |-> TRUE, value |-> store[sessionId].cookies]
    ELSE [has |-> FALSE, value |-> <<>>]

\* history: the name=value pairs of the upstream response of q, once q was answered
Emitted(rec, q) ==
    [rec EXCEPT ![q.session] =
        @ \cup {NameValue(q.setCookies[i]) : i \in 1..Len(q.setCookies)}]

\* mutant: every session writes to the jar of the default session
storeCookiesShared(store, sessionId, setCookies, t) ==
    IF Len(setCookies) > 0
    THEN LET existing == IF SID_default \in DOMAIN store
                         THEN store[SID_default].cookies ELSE <<>>
             newCookies == newCookiesOf(setCookies)
         IN  JarPut(store, SID_default,
                    [cookies |-> IF existing # <<>>
                                 THEN existing \o S_cookieSep \o newCookies
                                 ELSE newCookies,
                     timestamp |-> t])
    ELSE store

\* v4, "Store cookies"
storeCookiesV4(store, sessionId, setCookies, t) ==
    IF Len(setCookies) > 0
    THEN LET existing == IF sessionId \in DOMAIN store THEN store[sessionId].cookies ELSE <<>>
             newCookies == newCookiesOf(setCookies)
         IN  JarPut(store, sessionId,
                    [cookies |-> IF existing # <<>>
                                 THEN existing \o S_cookieSep \o newCookies
                                 ELSE newCookies,
                     timestamp |-> t])
    ELSE store

-----------------------------------------------------------------------------
(* v4: app.all('/browse') of src/unnamed/part_000, one action per segment *)

\* fullUrl: 'https://' is prepended when no protocol is given
FullUrl(targetUrl) ==
    IF ~StartsWith(targetUrl, S_http) /\ ~StartsWith(targetUrl, S_https)
    THEN S_https \o targetUrl
    ELSE targetUrl

\* mutant: every string is taken for a URL
URLParsesAnything(fullUrl) == TRUE

\* whether new URL(fullUrl) succeeds, for a string that starts with a protocol:
\* the host after the protocol must not be empty
URLParses(fullUrl) ==
    LET rest == IF StartsWith(fullUrl, S_https)
                THEN SubSeq(fullUrl, Len(S_https) + 1, Len(fullUrl))
                ELSE SubSeq(fullUrl, Len(S_http) + 1, Len(fullUrl))
    IN  Len(rest) > 0 /\ rest[1] \notin {"/", "?", "#"}

SessionOf(sparam) == IF sparam = <<>> THEN SID_default ELSE sparam

Pending(r) == reqs[r].pc \in {"fetching", "reading"}

\* history: an expectation lasts until its entry leaves the cache
Prune(ex, c) == [k \in Keys |-> IF CacheHas(c, k) THEN ex[k] ELSE NoExpect]

ClientError(method, sessionId) ==
    [NoResp EXCEPT !.status = 400, !.method = method, !.session = sessionId]

\* requests take the lowest free slot
FreeSlot(r) ==
    /\ reqs[r].pc = "idle"
    /\ \A r2 \in Slots : r2 < r => reqs[r2].pc # "idle"

BrowseStartV4(r, method, targetUrl, sparam) ==
    LET sessionId == SessionOf(sparam)
        fullUrl == FullUrl(targetUrl)
        cacheKey == getCacheKey(fullUrl)
        g == getFromCache(cache, cacheSize, cacheKey, now)
        lookedUp == IF g.found THEN "hit"
                    ELSE IF CacheHas(cache, cacheKey) THEN "stale" ELSE "miss"
        fresh == expect[cacheKey].set /\ now - expect[cacheKey].at < CACHE_MAX_AGE
    IN  /\ variant = "v4"
        /\ FreeSlot(r)
        /\ evicted' = <<>>
        /\ IF targetUrl = <<>> \/ ~URLParses(fullUrl)
           THEN /\ lastResp' = ClientError(method, sessionId)
                /\ lastLookup' = NoLookup
                /\ UNCHANGED <<cache, cacheSize, reqs, expect>>
           ELSE /\ cache' = g.cache
                /\ cacheSize' = g.cacheSize
                /\ expect' = Prune(expect, g.cache)
                /\ lastLookup' = [kind |-> lookedUp, method |-> method, wanted |-> fresh,
                                  age |-> IF CacheHas(cache, cacheKey)
                                          THEN now - cache[CacheIndex(cache, cacheKey)].timestamp
                                          ELSE 0]
                /\ IF g.found /\ method = "GET"
                   THEN /\ lastResp' = [NoResp EXCEPT
                                !.status = 200, !.ctype = g.item.contentType,
                                !.xcache = "HIT", !.data = g.item.data,
                                !.method = method, !.key = cacheKey,
                                !.session = sessionId, !.path = "cache",
                                !.age = now - g.item.timestamp,
                                !.exp = IF fresh
                                        THEN [set |-> TRUE, data |-> expect[cacheKey].data,
                                              ctype |-> expect[cacheKey].ctype]
                                        ELSE NoWant]
                        /\ UNCHANGED reqs
                   ELSE /\ reqs' = [reqs EXCEPT ![r] =
                                [pc |-> "fetching", method |-> method, key |-> cacheKey,
                                 session |-> sessionId,
                                 hasCookie |-> CookieHeader(cookieStore, sessionId).has,
                                 cookie |-> CookieHeader(cookieStore, sessionId).value,
                                 deadline |-> now + REQUEST_TIMEOUT, ctype |-> <<>>,
                                 setCookies |-> <<>>, owed |-> recorded[sessionId]]]
                        /\ lastResp' = NoResp
        /\ starts' = Min(starts + 1, MaxStarts)
        /\ UNCHANGED <<variant, now, cookieStore, nextSweep, writer, recorded, ticks>>

\* await fetch(fullUrl, fetchOptions) resolved: store cookies, read the content type
FetchDoneV4(r, contentType, setCookies) ==
    /\ variant = "v4"
    /\ reqs[r].pc = "fetching"
    /\ now <= reqs[r].deadline
    /\ cookieStore' = storeCookiesV4(cookieStore, reqs[r].session, setCookies, now)
    /\ reqs' = [reqs EXCEPT ![r].pc = "reading", ![r].ctype = contentType,
                             ![r].setCookies = setCookies]
    /\ lastResp' = NoResp
    /\ lastLookup' = NoLookup
    /\ evicted' = <<>>
    /\ UNCHANGED <<variant, now, cache, cacheSize, nextSweep, writer, expect, recorded,
                   starts, ticks>>

\* await response.arrayBuffer() / response.text() resolved: relay, and store if allowed
BodyDoneV4(r, body) ==
    LET q == reqs[r]
        path == PathV4(q.ctype)
        rel == RelayV4(body, q.ctype, ProxyBase(q.session), q.key)
        a == addToCache(cache, cacheSize, q.key, rel.data, rel.storeType, now)
        cache2 == IF rel.store THEN a.cache ELSE cache
        imageGet == /\ path = "static"
                    /\ StartsWith(q.ctype, S_image)
                    /\ body.len < STATIC_ITEM_MAX
    IN  /\ variant = "v4"
        /\ q.pc = "reading"
        /\ now <= q.deadline
        /\ cache' = cache2
        /\ cacheSize' = IF rel.store THEN a.cacheSize ELSE cacheSize
        /\ evicted' = IF rel.store THEN a.evicted ELSE <<>>
        /\ writer' = IF rel.store THEN [writer EXCEPT ![q.key] = q.method] ELSE writer
        /\ expect' = [k \in Keys |->
                        IF k = q.key /\ q.method = "GET"
                        THEN IF imageGet
                             THEN [set |-> TRUE, data |-> rel.data, ctype |-> rel.respType,
                                   at |-> now]
                             ELSE NoExpect
                        ELSE IF CacheHas(cache2, k) THEN expect[k] ELSE NoExpect]
        /\ lastResp' = [NoResp EXCEPT
                !.status = 200, !.ctype = rel.respType, !.xcache = "MISS",
                !.data = rel.data, !.method = q.method, !.key = q.key,
                !.session = q.session, !.fetched = TRUE, !.path = path,
                !.stored = rel.store, !.declared = q.ctype, !.upstream = body.doc, !.marks = body.marks]
        /\ lastLookup' = NoLookup
        /\ reqs' = [reqs EXCEPT ![r] = IdleReq]
        /\ recorded' = Emitted(recorded, q)
        /\ UNCHANGED <<variant, now, cookieStore, nextSweep, starts, ticks>>

\* the catch block: 504 for TimeoutError / AbortError, 500 otherwise
CatchV4(q, errName) ==
    [NoResp EXCEPT
        !.status = IF errName \in {"TimeoutError", "AbortError"} THEN 504 ELSE 500,
        !.xcache = IF q.pc = "reading" THEN "MISS" ELSE "-",
        !.method = q.method, !.key = q.key, !.session = q.session,
        !.fetched = TRUE, !.path = "catch", !.cause = errName]

\* the AbortSignal.timeout(REQUEST_TIMEOUT) of r fires: time has reached the deadline
TimesOut(r) ==
    /\ Pending(r)
    /\ \A r2 \in Slots : Pending(r2) => reqs[r].deadline <= reqs[r2].deadline

\* the pending await (fetch or body read) rejects
FailV4(r, errName) ==
    /\ variant = "v4"
    /\ Pending(r)
    /\ IF errName = "TimeoutError"
       THEN TimesOut(r) /\ now' = reqs[r].deadline
       ELSE now <= reqs[r].deadline /\ now' = now
    /\ lastResp' = CatchV4(reqs[r], errName)
    /\ lastLookup' = NoLookup
    /\ evicted' = <<>>
    /\ reqs' = [reqs EXCEPT ![r] = IdleReq]
    /\ recorded' = Emitted(recorded, reqs[r])
    /\ UNCHANGED <<variant, cache, cacheSize, cookieStore, nextSweep, writer, expect,
                   starts, ticks>>

\* setInterval(..., 60 * 1000): clean the cache
CacheSweep ==
    LET w == sweepCache(cache, cacheSize, now)
    IN  /\ variant = "v4"
        /\ now >= nextSweep
        /\ cache' = w.cache
        /\ cacheSize' = w.cacheSize
        /\ expect' = Prune(expect, w.cache)
        /\ nextSweep' = now + CACHE_SWEEP_INTERVAL
        /\ lastResp' = NoResp
        /\ lastLookup' = NoLookup
        /\ evicted' = <<>>
        /\ UNCHANGED <<variant, now, cookieStore, reqs, writer, recorded, starts, ticks>>

\* time passes; no pending await outlives its abort deadline
Tick(d) ==
    /\ \A r \in Slots : Pending(r) => now + d <= reqs[r].deadline
    /\ now' = now + d
    /\ lastResp' = NoResp
    /\ lastLookup' = NoLookup
    /\ evicted' = <<>>
    /\ ticks' = Min(ticks + 1, MaxTicks)
    /\ UNCHANGED <<variant, cache, cacheSize, cookieStore, reqs, nextSweep, writer, expect,
                   recorded, starts>>

-----------------------------------------------------------------------------
(* v3: app.all('/browse') and the cookie sweep of src/server.js *)

INJECTED_TEMPLATE_LEN == 3323

\* length of createInjectedScript(proxyBase, baseUrl, currentUrl, sessionId)
createInjectedScriptLen(proxyBase, baseUrl, currentUrl, sessionId) ==
    INJECTED_TEMPLATE_LEN + Len(proxyBase) + Len(baseUrl) + Len(currentUrl)
        + Len(sessionId)

\* mutant: the new cookies replace what the session had accumulated
storeCookiesReplace(store, sessionId, setCookies, t) ==
    IF Len(setCookies) > 0
    THEN JarPut(store, sessionId,
                [cookies |-> newCookiesOf(setCookies), timestamp |-> t])
    ELSE store

\* v3, "Store cookies from response"; without Set-Cookie an existing session is touched
storeCookiesV3(store, sessionId, setCookies, t) ==
    IF Len(setCookies) > 0
    THEN LET existingCookies == IF sessionId \in DOMAIN store
                                THEN store[sessionId].cookies ELSE <<>>
             newCookies == newCookiesOf(setCookies)
         IN  JarPut(store, sessionId,
                    [cookies |-> IF existingCookies # <<>>
                                 THEN existingCookies \o S_cookieSep \o newCookies
                                 ELSE newCookies,
                     timestamp |-> t])
    ELSE IF sessionId \in DOMAIN store
    THEN [store EXCEPT ![sessionId].timestamp = t]
    ELSE store

PathV3(contentType) ==
    IF ~Includes(contentType, S_textHtml)
    THEN IF Includes(contentType, S_textCss) THEN "css"
         ELSE IF Includes(contentType, S_javascript) \/ Includes(contentType, S_appJson)
         THEN "text"
         ELSE IF Includes(contentType, S_manifest) THEN "manifest"
         ELSE IF Includes(contentType, S_svg) THEN "svg"
         ELSE "binary"
    ELSE "html"

\* what each content-type branch of the v3 handler sends
RelayV3(body, contentType, proxyBase, finalUrl, sessionId) ==
    LET path == PathV3(contentType)
        rewritten == rewriteCssLen(body, proxyBase)
    IN  CASE path = "css" ->
               [data |-> [body |-> body.id,
                          len |-> rewritten
                                  + DocGrowth(body.doc,
                                              rewriteCss(body.doc, Origin(finalUrl),
                                                         proxyBase, finalUrl)),
                          form |-> "css", base |-> proxyBase,
                          doc |-> rewriteCss(body.doc, Origin(finalUrl), proxyBase,
                                             finalUrl),
                          inject |-> "-"],
                respType |-> contentType]
          [] path = "svg" ->
               [data |-> [body |-> body.id, len |-> body.len, form |-> "svg",
                          base |-> proxyBase, doc |-> body.doc,
                          inject |-> "-"],
                respType |-> S_svg]
          [] path = "manifest" ->
               [data |-> [body |-> body.id, len |-> body.len, form |-> "manifest",
                          base |-> proxyBase, doc |-> body.doc,
                          inject |-> "-"],
                respType |-> S_appJson]
          [] path = "html" ->
               [data |-> [body |-> body.id,
                          len |-> rewritten
                                  + DocGrowth(body.doc,
                                              rewriteHtmlV3(body.doc, Origin(finalUrl),
                                                            proxyBase, finalUrl))
                                  + createInjectedScriptLen(proxyBase, Origin(finalUrl),
                                                            finalUrl, sessionId),
                          form |-> "html", base |-> proxyBase,
                          doc |-> rewriteHtmlV3(body.doc, Origin(finalUrl), proxyBase,
                                                finalUrl),
                          inject |-> InjectV3(body.marks)],
                respType |-> S_htmlUtf8]
          [] OTHER -> [data |-> RawData(body), respType |-> contentType]

BrowseStartV3(r, method, targetUrl, sparam) ==
    LET sessionId == SessionOf(sparam)
        fullUrl == FullUrl(targetUrl)
        header == CookieHeader(cookieStore, sessionId)
    IN  /\ variant = "v3"
        /\ FreeSlot(r)
        /\ IF targetUrl = <<>> \/ ~URLParses(fullUrl)
           THEN /\ lastResp' = ClientError(method, sessionId)
                /\ UNCHANGED reqs
           ELSE /\ reqs' = [reqs EXCEPT ![r] =
                        [pc |-> "fetching", method |-> method, key |-> fullUrl,
                         session |-> sessionId, hasCookie |-> header.has,
                         cookie |-> header.value,
                         deadline |-> now + REQUEST_TIMEOUT, ctype |-> <<>>,
                         setCookies |-> <<>>, owed |-> recorded[sessionId]]]
                /\ lastResp' = NoResp
        /\ lastLookup' = NoLookup
        /\ evicted' = <<>>
        /\ starts' = Min(starts + 1, MaxStarts)
        /\ UNCHANGED <<variant, now, cache, cacheSize, cookieStore, nextSweep, writer,
                       expect, recorded, ticks>>

\* mutant: the store step appends to the cookies the handler read before the await
FetchDoneV3Stale(r, contentType, setCookies) ==
    /\ variant = "v3"
    /\ reqs[r].pc = "fetching"
    /\ now <= reqs[r].deadline
    /\ cookieStore' =
          IF Len(setCookies) > 0
          THEN JarPut(cookieStore, reqs[r].session,
                      [cookies |-> IF reqs[r].cookie # <<>>
                                   THEN reqs[r].cookie \o S_cookieSep \o newCookiesOf(setCookies)
                                   ELSE newCookiesOf(setCookies),
                       timestamp |-> now])
          ELSE cookieStore
    /\ reqs' = [reqs EXCEPT ![r].pc = "reading", ![r].ctype = contentType,
                             ![r].setCookies = setCookies]
    /\ lastResp' = NoResp
    /\ lastLookup' = NoLookup
    /\ evicted' = <<>>
    /\ UNCHANGED <<variant, now, cache, cacheSize, nextSweep, writer, expect, recorded,
                   starts, ticks>>

\* await fetch(fullUrl, fetchOptions) resolved: store cookies, read the content type
FetchDoneV3(r, contentType, setCookies) ==
    /\ variant = "v3"
    /\ reqs[r].pc = "fetching"
    /\ now <= reqs[r].deadline
    /\ cookieStore' = storeCookiesV3(cookieStore, reqs[r].session, setCookies, now)
    /\ reqs' = [reqs EXCEPT ![r].pc = "reading", ![r].ctype = contentType,
                             ![r].setCookies = setCookies]
    /\ lastResp' = NoResp
    /\ lastLookup' = NoLookup
    /\ evicted' = <<>>
    /\ UNCHANGED <<variant, now, cache, cacheSize, nextSweep, writer, expect, recorded,
                   starts, ticks>>

\* await response.arrayBuffer() / response.text() resolved: the branch sends its answer
BodyDoneV3(r, body) ==
    LET q == reqs[r]
        rel == RelayV3(body, q.ctype, ProxyBase(q.session), q.key, q.session)
    IN  /\ variant = "v3"
        /\ q.pc = "reading"
        /\ now <= q.deadline
        /\ lastResp' = [NoResp EXCEPT
                !.status = 200, !.ctype = rel.respType, !.data = rel.data,
                !.method = q.method, !.key = q.key, !.session = q.session,
                !.fetched = TRUE, !.path = PathV3(q.ctype), !.declared = q.ctype,
                !.upstream = body.doc, !.marks = body.marks]
        /\ recorded' = Emitted(recorded, q)
        /\ reqs' = [reqs EXCEPT ![r] = IdleReq]
        /\ lastLookup' = NoLookup
        /\ evicted' = <<>>
        /\ UNCHANGED <<variant, now, cache, cacheSize, cookieStore, nextSweep, writer,
                       expect, starts, ticks>>

\* mutant: the catch block sends nothing
CatchSilent(q, errName) == NoResp

\* the catch block: status 500 whatever the error
CatchV3(q, errName) ==
    [NoResp EXCEPT
        !.status = 500, !.method = q.method, !.key = q.key, !.session = q.session,
        !.fetched = TRUE, !.path = "catch", !.cause = errName]

\* the pending await (fetch or body read) rejects
FailV3(r, errName) ==
    /\ variant = "v3"
    /\ Pending(r)
    /\ IF errName = "TimeoutError"
       THEN TimesOut(r) /\ now' = reqs[r].deadline
       ELSE now <= reqs[r].deadline /\ now' = now
    /\ lastResp' = CatchV3(reqs[r], errName)
    /\ recorded' = Emitted(recorded, reqs[r])
    /\ reqs' = [reqs EXCEPT ![r] = IdleReq]
    /\ lastLookup' = NoLookup
    /\ evicted' = <<>>
    /\ UNCHANGED <<variant, cache, cacheSize, cookieStore, nextSweep, writer, expect,
                   starts, ticks>>

\* mutant: a session is deleted as soon as its age reaches COOKIE_MAX_AGE
sweepCookiesAtAge(store, t) ==
    LET kept == {s \in DOMAIN store : ~(t - store[s].timestamp >= COOKIE_MAX_AGE)}
    IN  [s \in kept |-> store[s]]

\* the sessions the sweep keeps
sweepCookies(store, t) ==
    LET kept == {s \in DOMAIN store : ~(t - store[s].timestamp > COOKIE_MAX_AGE)}
    IN  [s \in kept |-> store[s]]

\* setInterval(..., 5 * 60 * 1000): clean old cookies
CookieSweep ==
    LET kept == sweepCookies(cookieStore, now)
    IN  /\ variant = "v3"
        /\ now >= nextSweep
        /\ cookieStore' = kept
        /\ recorded' = [s \in SessionIds |->
                          IF s \in DOMAIN cookieStore /\ s \notin DOMAIN kept
                          THEN {} ELSE recorded[s]]
        /\ nextSweep' = now + COOKIE_SWEEP_INTERVAL
        /\ lastResp' = NoResp
        /\ lastLookup' = NoLookup
        /\ evicted' = <<>>
        /\ UNCHANGED <<variant, now, cache, cacheSize, reqs, writer, expect, starts,
                       ticks>>

-----------------------------------------------------------------------------
(* Specification of the cache variant *)

Methods == {"GET", "POST"}
Targets == {T_missing, T_a, T_httpB, T_bad}
ContentTypes == {CT_png, CT_mpeg, S_textCss, S_appJs, S_htmlUtf8, CT_json}
Bodies == {BodyA, BodyB, BodyC}
CacheDeltas == {CACHE_MAX_AGE, CACHE_MAX_AGE + 1}

InitCommon ==
    /\ now = 0
    /\ cache = <<>>
    /\ cacheSize = 0
    /\ cookieStore = <<>>
    /\ reqs = [r \in Slots |-> IdleReq]
    /\ lastResp = NoResp
    /\ lastLookup = NoLookup
    /\ evicted = <<>>
    /\ writer = [k \in Keys |-> "-"]
    /\ expect = [k \in Keys |-> NoExpect]
    /\ recorded = [s \in SessionIds |-> {}]
    /\ starts = 0
    /\ ticks = 0

InitCache ==
    /\ variant = "v4"
    /\ nextSweep = CACHE_SWEEP_INTERVAL
    /\ InitCommon

NextCache ==
    \/ \E r \in Slots, m \in Methods, t \in Targets :
          starts < MaxStarts /\ BrowseStartV4(r, m, t, <<>>)
    \/ \E r \in Slots, ct \in ContentTypes : FetchDoneV4(r, ct, <<>>)
    \/ \E r \in Slots, b \in Bodies : BodyDoneV4(r, b)
    \/ \E r \in Slots, e \in {"TimeoutError", "TypeError"} : FailV4(r, e)
    \/ CacheSweep
    \/ \E d \in CacheDeltas : ticks < MaxTicks /\ Tick(d)

SpecCache == InitCache /\ [][NextCache]_vars

\* One client that sends its requests one after the other, as many as it likes,
\* for one URL whose responses are images of two lengths below the per-item limit.
FillBodies == {BodyM, BodyB}

Sequential == \A r \in Slots : ~Pending(r)

NextFill ==
    \/ \E r \in Slots, m \in Methods : Sequential /\ BrowseStartV4(r, m, T_a, <<>>)
    \/ \E r \in Slots : FetchDoneV4(r, CT_png, <<>>)
    \/ \E r \in Slots, b \in FillBodies : BodyDoneV4(r, b)

SpecFill == InitCache /\ [][NextFill]_vars

\* The same client with two URLs, images of one length, and a clock that ticks.
NextEvict ==
    \/ \E r \in Slots, m \in Methods, t \in {T_a, T_httpB} :
          Sequential /\ BrowseStartV4(r, m, t, <<>>)
    \/ \E r \in Slots : FetchDoneV4(r, CT_png, <<>>)
    \/ \E r \in Slots : BodyDoneV4(r, BodyB)
    \/ ticks < MaxTicks /\ Tick(1)

SpecEvict == InitCache /\ [][NextEvict]_vars

-----------------------------------------------------------------------------
(* Specification of the cookie jar, for either variant *)

SetCookieLists == {<<>>, <<SC_a>>, <<SC_b, SC_c>>}
JarContentTypes == {S_htmlUtf8, CT_json, CT_none}
JarDeltas == {COOKIE_MAX_AGE, COOKIE_MAX_AGE + 1}

InitJar ==
    /\ variant \in {"v3", "v4"}
    /\ nextSweep = IF variant = "v3" THEN COOKIE_SWEEP_INTERVAL ELSE CACHE_SWEEP_INTERVAL
    /\ InitCommon

NextJar ==
    \/ \E r \in Slots, sp \in SessionParams :
          starts < MaxStarts /\ BrowseStartV3(r, "GET", T_a, sp)
    \/ \E r \in Slots, ct \in JarContentTypes, sc \in SetCookieLists : FetchDoneV3(r, ct, sc)
    \/ \E r \in Slots : BodyDoneV3(r, BodyA)
    \/ \E r \in Slots, e \in {"TimeoutError", "TypeError"} : FailV3(r, e)
    \/ CookieSweep
    \/ \E r \in Slots, sp \in SessionParams :
          starts < MaxStarts /\ BrowseStartV4(r, "GET", T_a, sp)
    \/ \E r \in Slots, ct \in JarContentTypes, sc \in SetCookieLists : FetchDoneV4(r, ct, sc)
    \/ \E r \in Slots : BodyDoneV4(r, BodyA)
    \/ \E r \in Slots, e \in {"TimeoutError", "TypeError"} : FailV4(r, e)
    \/ CacheSweep
    \/ \E d \in JarDeltas : ticks < MaxTicks /\ Tick(d)

SpecJar == InitJar /\ [][NextJar]_vars

\* the cookie jar once a request of the default session was answered at time 0 with
\* Set-Cookie: a=1; the requests of NextJar follow
InitSessions ==
    /\ variant \in {"v3", "v4"}
    /\ nextSweep = IF variant = "v3" THEN COOKIE_SWEEP_INTERVAL ELSE CACHE_SWEEP_INTERVAL
    /\ now = 0
    /\ cache = <<>>
    /\ cacheSize = 0
    /\ cookieStore = storeCookiesV4(<<>>, SID_default, <<SC_a>>, 0)
    /\ reqs = [r \in Slots |-> IdleReq]
    /\ lastResp = NoResp
    /\ lastLookup = NoLookup
    /\ evicted = <<>>
    /\ writer = [k \in Keys |-> "-"]
    /\ expect = [k \in Keys |-> NoExpect]
    /\ recorded = [s \in SessionIds |-> IF s = SID_default THEN {NameValue(SC_a)} ELSE {}]
    /\ starts = 0
    /\ ticks = 0

SpecSessions == InitSessions /\ [][NextJar]_vars

-----------------------------------------------------------------------------
(* Specification of concurrent requests of one session, either variant: one URL *)
(* that parses and the url parameters that are refused                          *)

RaceTargets == {T_a, T_missing, T_bad}
RaceContentTypes == {CT_png, S_htmlUtf8}
RaceCookieLists == {<<SC_a>>, <<SC_b, SC_c>>}

NextRace ==
    \/ \E r \in Slots, t \in RaceTargets :
          starts < MaxStarts /\ BrowseStartV3(r, "GET", t, <<>>)
    \/ \E r \in Slots, ct \in RaceContentTypes, sc \in RaceCookieLists :
          FetchDoneV3(r, ct, sc)
    \/ \E r \in Slots : BodyDoneV3(r, BodyA)
    \/ \E r \in Slots : FailV3(r, "TypeError")
    \/ CookieSweep
    \/ \E r \in Slots, t \in RaceTargets :
          starts < MaxStarts /\ BrowseStartV4(r, "GET", t, <<>>)
    \/ \E r \in Slots, ct \in RaceContentTypes, sc \in RaceCookieLists :
          FetchDoneV4(r, ct, sc)
    \/ \E r \in Slots, b \in FillBodies : BodyDoneV4(r, b)
    \/ \E r \in Slots : FailV4(r, "TypeError")
    \/ CacheSweep
    \/ \E d \in CacheDeltas \cup JarDeltas : ticks < MaxTicks /\ Tick(d)

SpecRace == InitJar /\ [][NextRace]_vars

-----------------------------------------------------------------------------
(* Specification of request termination: the requests of SpecRace, whose pending  *)
(* await settles in the end: it resolves, rejects, or is aborted at the deadline  *)

\* the pending await of request r settles
Settle(r) ==
    \/ \E ct \in RaceContentTypes, sc \in RaceCookieLists : FetchDoneV3(r, ct, sc)
    \/ BodyDoneV3(r, BodyA)
    \/ \E e \in {"TypeError", "TimeoutError"} : FailV3(r, e)
    \/ \E ct \in RaceContentTypes, sc \in RaceCookieLists : FetchDoneV4(r, ct, sc)
    \/ \E b \in FillBodies : BodyDoneV4(r, b)
    \/ \E e \in {"TypeError", "TimeoutError"} : FailV4(r, e)

NextTerm ==
    \/ \E r \in Slots, t \in RaceTargets :
          starts < MaxStarts /\ BrowseStartV3(r, "GET", t, <<>>)
    \/ \E r \in Slots, t \in RaceTargets :
          starts < MaxStarts /\ BrowseStartV4(r, "GET", t, <<>>)
    \/ \E r \in Slots : Settle(r)
    \/ CookieSweep
    \/ CacheSweep
    \/ \E d \in CacheDeltas \cup JarDeltas : ticks < MaxTicks /\ Tick(d)

SpecTerm ==
    /\ InitJar
    /\ [][NextTerm]_vars
    /\ \A r \in Slots : WF_vars(Settle(r))

-----------------------------------------------------------------------------
(* Specification of idle sessions: requests arrive at time 0 only, then the clock *)
(* and the timers of the variant keep running up to a horizon                     *)

Horizon == COOKIE_MAX_AGE + 2 * COOKIE_SWEEP_INTERVAL

IdleTick == now + COOKIE_SWEEP_INTERVAL <= Horizon /\ Tick(COOKIE_SWEEP_INTERVAL)

NextIdle ==
    \/ \E r \in Slots, sp \in SessionParams :
          now = 0 /\ starts < MaxStarts /\ BrowseStartV3(r, "GET", T_a, sp)
    \/ \E r \in Slots, sc \in SetCookieLists : FetchDoneV3(r, S_htmlUtf8, sc)
    \/ \E r \in Slots : BodyDoneV3(r, BodyA)
    \/ CookieSweep
    \/ \E r \in Slots, sp \in SessionParams :
          now = 0 /\ starts < MaxStarts /\ BrowseStartV4(r, "GET", T_a, sp)
    \/ \E r \in Slots, sc \in SetCookieLists : FetchDoneV4(r, S_htmlUtf8, sc)
    \/ \E r \in Slots : BodyDoneV4(r, BodyA)
    \/ CacheSweep
    \/ IdleTick

\* the clock advances and a timer that is due fires
SpecIdle ==
    /\ InitJar
    /\ [][NextIdle]_vars
    /\ WF_vars(IdleTick)
    /\ WF_vars(CookieSweep)
    /\ WF_vars(CacheSweep)

-----------------------------------------------------------------------------
(* Specification of HTML rewriting: one client, one HTML document per request,   *)
(* the document holding one URL-carrying attribute                               *)

U_about == <<"/", "a", "b", "o", "u", "t">>
U_abs == <<"h", "t", "t", "p", ":", "/", "/", "b", ".", "i", "o">>
U_rel == <<"x", ".", "p", "n", "g">>
U_protoRel == <<"/", "/", "c", ".", "i", "o">>
U_data == <<"d", "a", "t", "a", ":", "x">>
U_blob == <<"b", "l", "o", "b", ":", "x">>
U_js == <<"j", "a", "v", "a", "s", "c", "r", "i", "p", "t", ":", "x">>
U_mailto == <<"m", "a", "i", "l", "t", "o", ":", "x", "@", "y">>
U_tel == <<"t", "e", "l", ":", "1">>
U_aboutBlank == <<"a", "b", "o", "u", "t", ":", "b", "l", "a", "n", "k">>
U_fragment == <<"#", "t", "o", "p">>

UrlValues == {U_about, U_abs, U_rel, U_protoRel, U_data, U_blob,
              U_js, U_mailto, U_tel, U_aboutBlank, U_fragment}

\* element and attribute names of the attributes rewriteHtml looks at
AttrKinds ==
    {<<"a", "href">>, <<"link", "href">>, <<"use", "href">>, <<"img", "src">>,
     <<"img", "srcset">>, <<"img", "data-src">>, <<"embed", "src">>,
     <<"source", "src">>, <<"track", "src">>, <<"form", "action">>,
     <<"video", "poster">>, <<"object", "data">>, <<"div", "style">>}

\* an HTML body with one element <tag attr="v"> (first) or <tag id="e" attr="v">
HtmlBody(k, v, first, marks) ==
    [id |-> "H", len |-> 20 + Len(v), refs |-> 0,
     doc |-> <<[tag |-> k[1], attr |-> k[2], value |-> v, first |-> first]>>,
     marks |-> marks]

\* which of </head> and <body the page includes
PageMarks == SUBSET {"</head>", "<body"}

NextRewrite ==
    \/ \E r \in Slots : Sequential /\ starts < MaxStarts /\ BrowseStartV3(r, "GET", T_a, <<>>)
    \/ \E r \in Slots : FetchDoneV3(r, S_htmlUtf8, <<>>)
    \/ \E r \in Slots, k \in AttrKinds, v \in UrlValues, f \in BOOLEAN, m \in PageMarks :
          BodyDoneV3(r, HtmlBody(k, v, f, m))
    \/ \E r \in Slots : Sequential /\ starts < MaxStarts /\ BrowseStartV4(r, "GET", T_a, <<>>)
    \/ \E r \in Slots : FetchDoneV4(r, S_htmlUtf8, <<>>)
    \/ \E r \in Slots, k \in AttrKinds, v \in UrlValues, f \in BOOLEAN, m \in PageMarks :
          BodyDoneV4(r, HtmlBody(k, v, f, m))

SpecRewrite == InitJar /\ [][NextRewrite]_vars

-----------------------------------------------------------------------------
(* Specification of stylesheets: clients of two sessions, one stylesheet URL, one  *)
(* request at a time; the stylesheet holds one quoted token that carries a URL     *)

CssKinds == {"url()", "@import", "@import url()"}

\* a stylesheet with url("v"), @import "v" or @import url("v")
CssBody(k, v) ==
    [id |-> "S", len |-> 20 + Len(v), refs |-> 0,
     doc |-> <<[tag |-> "css", attr |-> k, value |-> v, first |-> FALSE]>>,
     marks |-> {}]

NextCss ==
    \/ \E r \in Slots, sp \in SessionParams :
          Sequential /\ starts < MaxStarts /\ BrowseStartV3(r, "GET", T_a, sp)
    \/ \E r \in Slots : FetchDoneV3(r, S_textCss, <<>>)
    \/ \E r \in Slots, k \in CssKinds, v \in UrlValues : BodyDoneV3(r, CssBody(k, v))
    \/ \E r \in Slots, sp \in SessionParams :
          Sequential /\ starts < MaxStarts /\ BrowseStartV4(r, "GET", T_a, sp)
    \/ \E r \in Slots : FetchDoneV4(r, S_textCss, <<>>)
    \/ \E r \in Slots, k \in CssKinds, v \in UrlValues : BodyDoneV4(r, CssBody(k, v))

SpecCss == InitJar /\ [][NextCss]_vars

-----------------------------------------------------------------------------
(* Specification of failing requests: one request at a time, of either session;   *)
(* the fetch or the body read may reject, or be aborted at the deadline            *)

NextFail ==
    \/ \E r \in Slots, sp \in SessionParams, t \in RaceTargets :
          Sequential /\ starts < MaxStarts /\ BrowseStartV3(r, "GET", t, sp)
    \/ \E r \in Slots, ct \in RaceContentTypes, sc \in SetCookieLists :
          FetchDoneV3(r, ct, sc)
    \/ \E r \in Slots : BodyDoneV3(r, BodyA)
    \/ \E r \in Slots, e \in {"TimeoutError", "TypeError"} : FailV3(r, e)
    \/ \E r \in Slots, sp \in SessionParams, t \in RaceTargets :
          Sequential /\ starts < MaxStarts /\ BrowseStartV4(r, "GET", t, sp)
    \/ \E r \in Slots, ct \in RaceContentTypes, sc \in SetCookieLists :
          FetchDoneV4(r, ct, sc)
    \/ \E r \in Slots : BodyDoneV4(r, BodyA)
    \/ \E r \in Slots, e \in {"TimeoutError", "TypeError"} : FailV4(r, e)

SpecFail == InitJar /\ [][NextFail]_vars

-----------------------------------------------------------------------------
(* Claims about the content cache *)

\* C1: in every reachable state cacheSize equals the sum of data.length over the
\* entries of the cache map.
CacheAccounting == cacheSize = SumLen(cache)

\* C3: an entry inserted at time t is reported absent by getFromCache at every time
\* later than t + CACHE_MAX_AGE, swept or not, so no GET is answered from an entry
\* older than the TTL.
CacheTtlExpiry ==
    /\ \A k \in Keys :
          LET g == getFromCache(cache, cacheSize, k, now)
          IN  g.found => now - g.item.timestamp <= CACHE_MAX_AGE
    /\ lastResp.xcache = "HIT" => lastResp.age <= CACHE_MAX_AGE

\* a GET found an entry older than the TTL still resident, was told it is absent
\* and went upstream
CacheTtlExpiryWitness ==
    /\ lastLookup.kind = "stale"
    /\ lastLookup.method = "GET"
    /\ lastLookup.age > CACHE_MAX_AGE
    /\ \E r \in Slots : reqs[r].pc = "fetching"

\* C2: cacheSize never exceeds CACHE_MAX_SIZE, and neither does the true sum of the
\* resident payload lengths.
CacheCeiling ==
    /\ cacheSize <= CACHE_MAX_SIZE
    /\ SumLen(cache) <= CACHE_MAX_SIZE

\* C4: once a GET for a URL was answered with an image below the per-item limit, a
\* later GET for that URL within the TTL, the entry not evicted in between, is a HIT
\* that carries the same payload and content type and makes no upstream fetch.
CacheHitScenario ==
    /\ (lastLookup.method = "GET" /\ lastLookup.wanted)
          => (lastLookup.kind = "hit" /\ lastResp.xcache = "HIT" /\ ~lastResp.fetched)
    /\ (lastResp.xcache = "HIT" /\ lastResp.exp.set)
          => (lastResp.data = lastResp.exp.data /\ lastResp.ctype = lastResp.exp.ctype)

\* C5: a cache entry is served only to a GET request, and is created or overwritten
\* only by a GET request.
OnlyGetCached ==
    /\ lastResp.xcache = "HIT" => lastResp.method = "GET"
    /\ \A i \in 1..Len(cache) : writer[cache[i].key] = "GET"

\* C6: no cache entry holds a payload produced by the HTML path; a request that took
\* the HTML path fetched upstream and is not marked HIT, and no HIT delivers HTML-path
\* output.
HtmlNeverCached ==
    /\ \A i \in 1..Len(cache) : cache[i].data.form # "html"
    /\ lastResp.path = "html" => lastResp.fetched /\ lastResp.xcache = "MISS"
    /\ lastResp.xcache = "HIT" => lastResp.data.form # "html"

\* an HTML response was relayed while the cache holds entries
HtmlNeverCachedWitness ==
    /\ lastResp.path = "html"
    /\ lastResp.status = 200
    /\ lastResp.data.form = "html"
    /\ Len(cache) > 0

\* C7: whatever addToCache evicts is, at that moment, the resident entry with the
\* smallest timestamp.
EvictsOldest ==
    \A i \in 1..Len(evicted) : evicted[i].timestamp = evicted[i].oldest

\* C8: every resident entry is at most 5 MB long, and relaying a body longer than
\* that leaves the cache map and cacheSize unchanged.
PerItemCeiling ==
    /\ [](\A i \in 1..Len(cache) : cache[i].data.len <= STATIC_ITEM_MAX)
    /\ [][(/\ lastResp'.status = 200
            /\ lastResp'.fetched
            /\ lastResp'.data.len > STATIC_ITEM_MAX)
           => (cache' = cache /\ cacheSize' = cacheSize)]_vars

\* an image longer than the ceiling was relayed while the cache holds entries
PerItemCeilingWitness ==
    /\ lastResp.status = 200
    /\ lastResp.path = "static"
    /\ lastResp.data.len > STATIC_ITEM_MAX
    /\ shouldCache(lastResp.ctype)
    /\ Len(cache) > 0

-----------------------------------------------------------------------------
(* Claims about the cookie jar *)

\* C9: when the response of a request of session s carries Set-Cookie values v1..vn,
\* n >= 1, the jar's string for s afterwards is the previous string, if there was one,
\* followed by the part of each vi before its first ';', in order, all joined by '; ';
\* what s had accumulated is still there, at the front.
CookieAccumulation ==
    [][\A r \in Slots :
          (/\ reqs[r].pc = "fetching"
           /\ reqs'[r].pc = "reading"
           /\ Len(reqs'[r].setCookies) > 0)
          => LET s == reqs[r].session
                 v == reqs'[r].setCookies
                 prev == IF s \in DOMAIN cookieStore THEN cookieStore[s].cookies ELSE <<>>
                 pairs == [i \in 1..Len(v) |-> SplitFirst(v[i], ";")]
                 parts == (IF prev # <<>> THEN <<prev>> ELSE <<>>) \o pairs
             IN  /\ s \in DOMAIN cookieStore'
                 /\ cookieStore'[s].cookies = Join(parts, S_cookieSep)
                 /\ StartsWith(cookieStore'[s].cookies, prev)]_vars

\* a second response of a session added two cookies behind the one it already had
CookieAccumulationWitness ==
    \E r \in Slots :
        /\ reqs[r].pc = "reading"
        /\ reqs[r].setCookies = <<SC_b, SC_c>>
        /\ reqs[r].hasCookie
        /\ reqs[r].cookie = SC_a
        /\ cookieStore[reqs[r].session].cookies
              = <<"a", "=", "1", ";", " ", "b", "=", "2", ";", " ", "c", "=", "3">>

\* C10: once the answer to a request of session s whose upstream response carried
\* Set-Cookie: name=value was emitted, every request of s that starts afterwards,
\* before the sweep deletes s, sends an upstream Cookie header containing name=value.
CookieThreading ==
    \A r \in Slots :
        Pending(r) => \A nv \in reqs[r].owed :
                         reqs[r].hasCookie /\ Includes(reqs[r].cookie, nv)

\* under v3 a request went upstream after two cookies of its session were emitted
CookieThreadingWitness ==
    \E r \in Slots :
        /\ variant = "v3"
        /\ reqs[r].pc = "fetching"
        /\ Cardinality(reqs[r].owed) = 2
        /\ reqs[r].hasCookie

-----------------------------------------------------------------------------
(* Claims about concurrency, the session lifecycle and error handling *)

\* C11: whatever the interleaving of the handlers at their awaits, every name=value
\* pair of every upstream response received for a session is in the session's jar
\* string once the handler ran its store step and stays there until the sweep deletes
\* the session; and every step changes cacheSize by exactly the length it stored minus
\* the lengths of the entries it deleted, so no update to cacheSize is lost.
NoLostUpdates ==
    /\ [](/\ \A r \in Slots :
                reqs[r].pc = "reading" =>
                    \A i \in 1..Len(reqs[r].setCookies) :
                        /\ reqs[r].session \in DOMAIN cookieStore
                        /\ Includes(cookieStore[reqs[r].session].cookies,
                                    SplitFirst(reqs[r].setCookies[i], ";"))
          /\ \A s \in SessionIds : \A nv \in recorded[s] :
                /\ s \in DOMAIN cookieStore
                /\ Includes(cookieStore[s].cookies, nv))
    /\ [][LET gone(e) == \/ ~CacheHas(cache', e.key)
                         \/ \E i \in 1..Len(evicted') : evicted'[i].key = e.key
          IN  cacheSize' = cacheSize
                           + (IF lastResp'.stored THEN lastResp'.data.len ELSE 0)
                           - SumLen(SelectSeq(cache, gone))]_vars

\* two handlers of one session are both past their store step, each with cookies
NoLostUpdatesWitness ==
    \E r1, r2 \in Slots :
        /\ r1 # r2
        /\ reqs[r1].pc = "reading" /\ reqs[r2].pc = "reading"
        /\ reqs[r1].session = reqs[r2].session
        /\ reqs[r1].setCookies = <<SC_a>>
        /\ reqs[r2].setCookies = <<SC_b, SC_c>>
        /\ ~reqs[r2].hasCookie

\* C12: under v3 a request of a session that has a jar entry leaves the entry's
\* timestamp refreshed during the request, whatever its outcome (answer with or without
\* Set-Cookie, upstream failure, timeout): when the answer is emitted the timestamp is
\* no older than the request, which lasts at most REQUEST_TIMEOUT.
SessionRefresh ==
    (/\ variant = "v3"
     /\ lastResp.fetched
     /\ lastResp.session \in DOMAIN cookieStore)
    => now - cookieStore[lastResp.session].timestamp <= REQUEST_TIMEOUT

\* C13: under v3 a run of the sweep deletes exactly the sessions whose timestamp is
\* more than COOKIE_MAX_AGE in the past and leaves the cookies and timestamp of every
\* other session as they were; apart from the sweep only the store step of a request
\* handler changes the jar.
SweepSafety ==
    [][variant = "v3" =>
          IF nextSweep' # nextSweep
          THEN /\ DOMAIN cookieStore' =
                    {s \in DOMAIN cookieStore : now - cookieStore[s].timestamp <= COOKIE_MAX_AGE}
               /\ \A s \in DOMAIN cookieStore' : cookieStore'[s] = cookieStore[s]
          ELSE cookieStore' # cookieStore
                  => \E r \in Slots : reqs[r].pc = "fetching" /\ reqs'[r].pc = "reading"]_vars

\* the sweep has just run and deleted the session of a request that had started with
\* the session's cookies
SweepSafetyWitness ==
    \E r \in Slots :
        /\ variant = "v3"
        /\ nextSweep = now + COOKIE_SWEEP_INTERVAL
        /\ reqs[r].pc = "fetching"
        /\ reqs[r].hasCookie
        /\ reqs[r].session \notin DOMAIN cookieStore

\* C14: in either variant a session that has a jar entry and receives no further
\* request is eventually deleted from the jar, the timers firing as they fall due.
\* (Requests start at time 0 only, so once time has passed none is pending or to come.)
IdleExpiry ==
    \A s \in SessionIds :
        (s \in DOMAIN cookieStore /\ now > 0) ~> (s \notin DOMAIN cookieStore)

\* the same for the variant of src/server.js alone
IdleExpiryV3 ==
    \A s \in SessionIds :
        (variant = "v3" /\ s \in DOMAIN cookieStore /\ now > 0)
            ~> (s \notin DOMAIN cookieStore)

\* C15: a /browse request whose url parameter is missing, or does not parse as a URL
\* after the https:// default, is answered 400, makes no upstream fetch and leaves the
\* cookie jar and the cache as they were; and no other request is answered 400.
ClientInputError ==
    /\ [](lastResp.status = 400 => ~lastResp.fetched)
    /\ [][/\ \A r \in Slots, t \in {T_missing, T_bad} :
                (BrowseStartV3(r, "GET", t, <<>>) \/ BrowseStartV4(r, "GET", t, <<>>))
                    => lastResp'.status = 400
          /\ lastResp'.status = 400
                => /\ cookieStore' = cookieStore
                   /\ cache' = cache
                   /\ cacheSize' = cacheSize
                   /\ reqs' = reqs]_vars

\* a request was refused while the cache holds an entry past its TTL and the jar
\* holds a session
ClientInputErrorWitness ==
    /\ lastResp.status = 400
    /\ \E i \in 1..Len(cache) : now - cache[i].timestamp >= CACHE_MAX_AGE
    /\ DOMAIN cookieStore # {}

\* C16: in either variant a request whose upstream call was aborted because it
\* exceeded REQUEST_TIMEOUT is answered with status 504, never 500 and never a success.
TimeoutClassification ==
    lastResp.cause \in {"TimeoutError", "AbortError"} => lastResp.status = 504

\* C17: a request whose upstream fetch failed with a transport error (fetch rejects
\* with TypeError: DNS failure, connection refused or reset, TLS failure) is answered
\* with status 502, not the 504 of timeouts nor the 500 of unclassified errors.
TransportErrorClassification ==
    lastResp.cause = "TypeError" => lastResp.status = 502

-----------------------------------------------------------------------------
(* Claims about classification and rewriting *)

\* the table of the dispatch claim, by what the path does to the body: the media
\* family, javascript/json and anything else are relayed as they came
TableForm(contentType) ==
    IF \/ Includes(contentType, S_image) \/ Includes(contentType, S_font)
       \/ Includes(contentType, S_audio) \/ Includes(contentType, S_video)
    THEN "raw"
    ELSE IF Includes(contentType, S_textCss) THEN "css"
    ELSE IF Includes(contentType, S_javascript) \/ Includes(contentType, S_appJson)
    THEN "raw"
    ELSE IF Includes(contentType, S_textHtml) \/ contentType = <<>> THEN "html"
    ELSE "raw"

\* C18: what a fetched response goes through depends on its declared content type
\* only and follows the table; in particular text/html or an empty content type takes
\* the HTML path (rewrite and injection).
ContentTypeDispatch ==
    (lastResp.status = 200 /\ lastResp.fetched)
        => lastResp.data.form = TableForm(lastResp.declared)

\* the values the rewriting claims call non-proxiable: the data:, blob:, javascript:,
\* mailto:, tel: and about: schemes, and fragment-only values
NonProxiable(url) ==
    \/ \E p \in {S_data, S_blob, S_jsScheme, S_about,
                 <<"m", "a", "i", "l", "t", "o", ":">>, <<"t", "e", "l", ":">>} :
          StartsWith(url, p)
    \/ StartsWith(url, S_hash)

\* C19: an attribute value, srcset candidate or url() token that is non-proxiable
\* leaves the rewrite identical to what came in.
NonProxiableUntouched ==
    (lastResp.status = 200 /\ lastResp.fetched /\ lastResp.data.form = "html")
        => \A i \in 1..Len(lastResp.upstream) :
              NonProxiable(lastResp.upstream[i].value)
                  => lastResp.data.doc[i].value = lastResp.upstream[i].value

\* the absolute upstream URL of an attribute value found in the page at pageUrl
AbsoluteOf(url, pageUrl) ==
    IF StartsWith(url, S_http) \/ StartsWith(url, S_https) THEN url
    ELSE IF StartsWith(url, S_slashSlash) THEN <<"h", "t", "t", "p", "s", ":">> \o url
    ELSE IF StartsWith(url, S_slash) THEN Origin(pageUrl) \o url
    ELSE Origin(pageUrl) \o <<"/">> \o url

\* C20: after the one call of rewriteHtml of src/server.js every proxiable href, src,
\* action, poster, data or data-src value, on every element kind, equals the proxy base
\* followed by the percent-encoded absolute URL of the original value: wrapped once,
\* never a proxied URL that wraps a proxied URL.
ExactlyOnceWrapping ==
    (/\ variant = "v3"
     /\ lastResp.status = 200
     /\ lastResp.fetched
     /\ lastResp.data.form = "html")
        => \A i \in 1..Len(lastResp.upstream) :
              LET o == lastResp.upstream[i]
              IN  (/\ o.attr \in {"href", "src", "action", "poster", "data", "data-src"}
                   /\ ~NonProxiable(o.value))
                      => lastResp.data.doc[i].value
                            = ProxyBase(lastResp.session)
                              \o encodeURIComponent(AbsoluteOf(o.value, lastResp.key))

\* rewriteHtml of the variant that answered, with the arguments of that request
rewriteHtmlAgain(doc) ==
    IF variant = "v3"
    THEN rewriteHtmlV3(doc, Origin(lastResp.key), ProxyBase(lastResp.session), lastResp.key)
    ELSE rewriteHtmlV4(doc, Origin(lastResp.key), ProxyBase(lastResp.session), lastResp.key)

\* C21: rewriteHtml applied a second time, with the same proxyBase and currentUrl, to
\* the document it has rewritten leaves every proxiable URL attribute wrapping the
\* original upstream URL exactly once: no proxied URL is encoded again.
RewriteIdempotence ==
    (/\ lastResp.status = 200
     /\ lastResp.fetched
     /\ lastResp.data.form = "html")
        => \A i \in 1..Len(lastResp.upstream) :
              LET o == lastResp.upstream[i]
              IN  (/\ o.attr \in {"href", "src", "action", "poster", "data-src"}
                   /\ ~NonProxiable(o.value))
                      => rewriteHtmlAgain(lastResp.data.doc)[i].value
                            = ProxyBase(lastResp.session)
                              \o encodeURIComponent(AbsoluteOf(o.value, lastResp.key))

\* C22: every answer of the HTML path holds the injected snippet once, placed before
\* </head> when the page has one, else after the opening <body...> tag when the page
\* has one, else at the start of the page, in both variants.
SnippetInjection ==
    (/\ lastResp.status = 200
     /\ lastResp.fetched
     /\ lastResp.data.form = "html")
        => lastResp.data.inject
              = (IF "</head>" \in lastResp.marks THEN "before </head>"
                 ELSE IF "<body" \in lastResp.marks THEN "after <body>"
                 ELSE "start")

\* the steps a request may take: RESOLVING and CACHE_CHECK are inside the start of
\* the handler, FETCHING is the await of fetch, CLASSIFYING to RESPONDING follow the
\* await of the body
ForwardSteps ==
    {<<"idle", "idle">>, <<"idle", "fetching">>, <<"fetching", "fetching">>,
     <<"fetching", "reading">>, <<"fetching", "idle">>, <<"reading", "reading">>,
     <<"reading", "idle">>}

\* C23: every /browse request moves forward only (start, fetch, body, answer), every
\* step that ends a request emits one response, DONE (200) or FAILED (400, 500, 504),
\* no other step emits one, and every request that awaits the upstream is answered
\* in the end, given that its await resolves, rejects or is aborted by the timeout.
RequestTermination ==
    /\ [][LET ended == {r \in Slots : reqs[r].pc # "idle" /\ reqs'[r].pc = "idle"}
              atOnce == IF starts' # starts /\ reqs' = reqs THEN 1 ELSE 0
              sent == IF lastResp'.status # 0 THEN 1 ELSE 0
          IN  /\ \A r \in Slots : <<reqs[r].pc, reqs'[r].pc>> \in ForwardSteps
              /\ Cardinality(ended) + atOnce = sent
              /\ lastResp'.status \in {0, 200, 400, 500, 504}]_vars
    /\ \A r \in Slots : (reqs[r].pc # "idle") ~> (reqs[r].pc = "idle")

\* a request was aborted at its deadline and answered while another one awaits
RequestTerminationWitness ==
    /\ lastResp.path = "catch"
    /\ lastResp.cause = "TimeoutError"
    /\ \E r \in Slots : reqs[r].pc = "reading"

\* C24: getFromCache(key) returns the entry whenever the key is present and
\* now - timestamp <= CACHE_MAX_AGE, leaving the map and cacheSize as they are; for a
\* present entry older than CACHE_MAX_AGE it returns null, deletes the entry and takes
\* its length off cacheSize; for a missing key it returns null and changes nothing.
\* A lookup of the handler that found a resident entry stale found it older than the TTL.
CacheGetFreshness ==
    /\ \A k \in Keys :
          LET g == getFromCache(cache, cacheSize, k, now)
              i == CacheIndex(cache, k)
          IN  IF i = 0
              THEN ~g.found /\ g.cache = cache /\ g.cacheSize = cacheSize
              ELSE IF now - cache[i].timestamp <= CACHE_MAX_AGE
              THEN g.found /\ g.item = cache[i] /\ g.cache = cache
                   /\ g.cacheSize = cacheSize
              ELSE /\ ~g.found
                   /\ g.cache = CacheDelete(cache, k)
                   /\ g.cacheSize = cacheSize - cache[i].data.len
    /\ lastLookup.kind = "stale" => lastLookup.age > CACHE_MAX_AGE

\* C25: rewriteCss replaces the target of every url(...), @import "..." and
\* @import url(...) that is proxiable by the proxy base followed by the
\* percent-encoded absolute URL of the target, resolved against the stylesheet URL:
\* each target is wrapped once, no @import url(...) target twice.
CssExactlyOnce ==
    (/\ lastResp.status = 200
     /\ lastResp.fetched
     /\ lastResp.data.form = "css")
        => \A i \in 1..Len(lastResp.upstream) :
              LET o == lastResp.upstream[i]
              IN  ~NonProxiable(o.value)
                      => lastResp.data.doc[i].value
                            = ProxyBase(lastResp.session)
                              \o encodeURIComponent(AbsoluteOf(o.value, lastResp.key))

-----------------------------------------------------------------------------
(* Claims about sessions and failures *)

\* the name=value pairs of a Cookie header, which joins them with "; "
RECURSIVE HeaderPairs(_)
HeaderPairs(h) ==
    IF Len(h) = 0 THEN {}
    ELSE LET i == IndexOf(h, ";")
         IN  IF i = 0 THEN {h}
             ELSE {SubSeq(h, 1, i - 1)} \cup HeaderPairs(SubSeq(h, i + 2, Len(h)))

\* the pairs of the Set-Cookie headers of the upstream responses received by requests
\* of session s since the sweep last deleted s: those of answered requests and those
\* of requests reading; the pairs answered before a request started are its owed
ReceivedBy(s) ==
    recorded[s]
        \cup UNION {{NameValue(reqs[r].setCookies[i]) : i \in 1..Len(reqs[r].setCookies)} :
                      r \in {x \in Slots : reqs[x].pc = "reading" /\ reqs[x].session = s}}

\* C26: whatever the interleaving of requests of several sessions, the Cookie header
\* of an upstream request of session A, and the jar string it is read from, hold only
\* name=value pairs of Set-Cookie headers received by earlier requests of session A.
SessionIsolation ==
    /\ \A r \in Slots :
          (Pending(r) /\ reqs[r].hasCookie)
              => HeaderPairs(reqs[r].cookie)
                    \subseteq (reqs[r].owed \cup ReceivedBy(reqs[r].session))
    /\ \A sid \in DOMAIN cookieStore :
          HeaderPairs(cookieStore[sid].cookies) \subseteq ReceivedBy(sid)

\* a request of session s1 goes upstream with the cookies of s1 while the jar of the
\* default session holds another string
SessionIsolationWitness ==
    \E r \in Slots :
        /\ reqs[r].pc = "fetching"
        /\ reqs[r].session = SID_s1
        /\ reqs[r].hasCookie
        /\ SID_default \in DOMAIN cookieStore
        /\ cookieStore[SID_default].cookies # <<>>
        /\ cookieStore[SID_default].cookies # reqs[r].cookie

\* C27: every body delivered to a request of session s, rewritten for it or served
\* from the cache, holds only proxied URLs whose proxy base names session s: no
\* payload cached for a session A is delivered to a session B with the session id of
\* A in its rewritten URLs.
NoCrossSessionBase ==
    lastResp.status = 200
        => \A i \in 1..Len(lastResp.data.doc) :
              \A sid \in SessionIds :
                  StartsWith(lastResp.data.doc[i].value, ProxyBase(sid))
                      => sid = lastResp.session

\* the cookies string the jar holds for session s, empty when it holds none
JarString(store, s) == IF s \in DOMAIN store THEN store[s].cookies ELSE <<>>

\* C28: when a /browse request ends FAILED (400, 500 or 504), whether the failure came
\* before or after the upstream response headers, the jar string of its session is
\* the one the request found when it started, and no step other than a 200 answer
\* changes the cache contents or cacheSize: shared state is as if the request had
\* never been made.
FailureLeavesState ==
    [][/\ \A r \in Slots :
             (/\ Pending(r)
              /\ reqs'[r].pc = "idle"
              /\ lastResp'.status \in {400, 500, 504})
                 => JarString(cookieStore', reqs[r].session) = reqs[r].cookie
       /\ lastResp'.status = 400 => cookieStore' = cookieStore
       /\ lastResp'.status # 200 => (cache' = cache /\ cacheSize' = cacheSize)]_vars

====
